---- MODULE Spec2Model ----
(***************************************************************************)
(* A model of the line editor of src/main.rs: the command-line scanner and *)
(* parser (InputStream, Address, AddressToken, CommandToken, Command), the *)
(* address resolver and the Editor state machine (Command / Insert mode),  *)
(* run by the read loop of main.                                           *)
(*                                                                         *)
(* Text is modelled character by character: a string is a sequence of     *)
(* one-character strings, a buffer is a sequence of such lines and a file  *)
(* is the sequence of its bytes ("\n" included).                           *)
(***************************************************************************)
EXTENDS Integers, Sequences, FiniteSets, TLC

(***************************************************************************)
(* Bounds of the model.                                                    *)
(***************************************************************************)
\* Insert mode stores a line only while the buffer has fewer than MaxLines
\* lines.
MaxLines == 3

(***************************************************************************)
(* Characters.                                                             *)
(***************************************************************************)
DigitChars == <<"0", "1", "2", "3", "4", "5", "6", "7", "8", "9">>

IsDigit(c) == \E k \in 1..10 : DigitChars[k] = c

DigitValue(c) == (CHOOSE k \in 1..10 : DigitChars[k] = c) - 1

\* char::is_whitespace, over the characters of the model
IsWhitespace(c) == c \in {" ", "\t"}

\* Option<T>
None == [some |-> FALSE, val |-> <<>>]

Some(v) == [some |-> TRUE, val |-> v]

(***************************************************************************)
(* InputStream: a forward-only position `pos` (1-based index of the next   *)
(* character) over the input line `s`.                                     *)
(***************************************************************************)
AtEnd(s, pos) == pos > Len(s)

\* InputStream::consume_while: index of the last character of the maximal
\* run of digits that starts at `start` (the character at `start` was
\* consumed by the caller).
RECURSIVE consume_while(_, _)
consume_while(s, end) ==
    IF end + 1 <= Len(s) /\ IsDigit(s[end + 1])
    THEN consume_while(s, end + 1)
    ELSE end

\* InputStream::consume: the rest of the line from `start` on.
consume(s, start) == SubSeq(s, start, Len(s))

\* str::parse::<usize> of a run of decimal digits (most significant first).
\* An input line of the model holds at most two digits, so the overflow of
\* usize (Err "Failed to parse numeric address", line 310) is out of reach.
RECURSIVE ParseNumber(_)
ParseNumber(str) ==
    IF str = <<>> THEN 0
    ELSE 10 * ParseNumber(SubSeq(str, 1, Len(str) - 1)) + DigitValue(str[Len(str)])

(***************************************************************************)
(* AddressToken::parse. Result: [err, tok, pos], tok an Option of          *)
(* [tag |-> "Dollar" | "Number", n].                                       *)
(***************************************************************************)
Dollar == [tag |-> "Dollar", n |-> 0]

Number(n) == [tag |-> "Number", n |-> n]

\* the Number arm: the digits run from pos to end
AddressToken_number(s, pos, end) ==
    [err |-> "", tok |-> Some(Number(ParseNumber(SubSeq(s, pos, end)))),
     pos |-> end + 1]

AddressToken_parse(s, pos) ==
    IF AtEnd(s, pos) \/ ~(s[pos] = "$" \/ IsDigit(s[pos]))
    THEN [err |-> "", tok |-> None, pos |-> pos]
    ELSE IF s[pos] = "$"
    THEN [err |-> "", tok |-> Some(Dollar), pos |-> pos + 1]
    ELSE AddressToken_number(s, pos, consume_while(s, pos))

(***************************************************************************)
(* Address::parse. Result: [err, address, pos], address one of             *)
(* [tag |-> "None" | "Single" | "Range", start, end].                      *)
(***************************************************************************)
NoAddress == [tag |-> "None", start |-> Dollar, end |-> Dollar]

Single(t) == [tag |-> "Single", start |-> t, end |-> t]

Range(b, e) == [tag |-> "Range", start |-> b, end |-> e]

\* after the comma: `second` is what AddressToken::parse made of the rest
Address_after_comma(first, second) ==
    IF second.tok.some
    THEN [err |-> "", address |-> Range(first.tok.val, second.tok.val),
          pos |-> second.pos]
    ELSE [err |-> second.err, address |-> Single(first.tok.val), pos |-> second.pos]

\* after the first token: `first` is what AddressToken::parse made of it
Address_after_first(s, first) ==
    IF ~first.tok.some
    THEN [err |-> first.err, address |-> NoAddress, pos |-> first.pos]
    ELSE IF ~AtEnd(s, first.pos) /\ s[first.pos] = ","
    THEN Address_after_comma(first, AddressToken_parse(s, first.pos + 1))
    ELSE [err |-> "", address |-> Single(first.tok.val), pos |-> first.pos]

Address_parse(s, pos) == Address_after_first(s, AddressToken_parse(s, pos))

(***************************************************************************)
(* CommandToken::parse. Result: [err, kind, pos], kind = [tag, path].      *)
(***************************************************************************)
Kind(tag, path) == [tag |-> tag, path |-> path]

\* index of the first non-whitespace character at or after pos
RECURSIVE SkipWhitespace(_, _)
SkipWhitespace(s, pos) ==
    IF ~AtEnd(s, pos) /\ IsWhitespace(s[pos])
    THEN SkipWhitespace(s, pos + 1)
    ELSE pos

\* the argument after the whitespace: it starts at `start`
swallow_argument(s, start) ==
    IF AtEnd(s, start)
    THEN [err |-> "Missing argument for command", path |-> None, pos |-> start]
    ELSE [err |-> "", path |-> Some(consume(s, start)), pos |-> Len(s) + 1]

\* swallow that takes the end of the input for a missing argument
swallow_required(s, pos) ==
    IF AtEnd(s, pos)
    THEN [err |-> "Missing argument for command", path |-> None, pos |-> pos]
    ELSE IF IsWhitespace(s[pos])
    THEN swallow_argument(s, SkipWhitespace(s, pos + 1))
    ELSE [err |-> "Expected space after command", path |-> None, pos |-> pos + 1]

\* the `swallow` closure: the path argument of e and w
swallow(s, pos) ==
    IF AtEnd(s, pos) THEN [err |-> "", path |-> None, pos |-> pos]
    ELSE IF IsWhitespace(s[pos])
    THEN swallow_argument(s, SkipWhitespace(s, pos + 1))
    ELSE [err |-> "Expected space after command", path |-> None, pos |-> pos + 1]

\* a verb without argument
simple(tag, pos) == [err |-> "", kind |-> Kind(tag, None), pos |-> pos + 1]

\* Edit(swallow(stream)?) and Write(swallow(stream)?): `a` is swallow's result
with_path(tag, a) == [err |-> a.err, kind |-> Kind(tag, a.path), pos |-> a.pos]

CommandToken_parse(s, pos) ==
    IF AtEnd(s, pos)
    THEN [err |-> "", kind |-> Kind("PrintAndSet", None), pos |-> pos]
    ELSE CASE s[pos] = "p" -> simple("Print", pos)
           [] s[pos] = "e" -> with_path("Edit", swallow(s, pos + 1))
           [] s[pos] = "w" -> with_path("Write", swallow(s, pos + 1))
           [] s[pos] = "a" -> simple("Append", pos)
           [] s[pos] = "i" -> simple("Insert", pos)
           [] s[pos] = "c" -> simple("Change", pos)
           [] s[pos] = "d" -> simple("Delete", pos)
           [] OTHER -> [err |-> "Unknown command", kind |-> Kind("PrintAndSet", None),
                        pos |-> pos + 1]

(***************************************************************************)
(* Command::parse. Result: [err, panic, address, kind]: err = "" and       *)
(* panic = FALSE for Ok(Command), err # "" for Err(err), panic = TRUE when *)
(* the unreachable!() of line 264 is reached.                              *)
(***************************************************************************)
\* after `let kind = CommandToken::parse(&mut stream)?`: the match on
\* stream.next()
Command_after_kind(s, a, k) ==
    IF k.err # ""
    THEN [err |-> k.err, panic |-> FALSE, address |-> a.address,
          kind |-> Kind("PrintAndSet", None)]
    ELSE [err |-> "", panic |-> ~AtEnd(s, k.pos), address |-> a.address,
          kind |-> k.kind]

\* after `let address = Address::parse(&mut stream)?`
Command_after_address(s, a) ==
    IF a.err # ""
    THEN [err |-> a.err, panic |-> FALSE, address |-> NoAddress,
          kind |-> Kind("PrintAndSet", None)]
    ELSE Command_after_kind(s, a, CommandToken_parse(s, a.pos))

Command_parse(s) == Command_after_address(s, Address_parse(s, 1))

(***************************************************************************)
(* Slices, joins and files.                                                *)
(***************************************************************************)
\* SliceIndex / Vec::drain for the RangeInclusive start..=end (0-based) on a
\* sequence of length len: both go through start..end+1 and panic when
\* start > end + 1 or end + 1 > len.
slice_panics(start, end, len) == start > end + 1 \/ end + 1 > len

\* &v[start..=end]
slice(v, start, end) == SubSeq(v, start + 1, end + 1)

\* Vec::drain(start..=end): what is left of v
drain(v, start, end) == SubSeq(v, 1, start) \o SubSeq(v, end + 2, Len(v))

\* Vec::insert(index, element)
insert(v, index, element) ==
    SubSeq(v, 1, index) \o <<element>> \o SubSeq(v, index + 1, Len(v))

\* [String]::join("\n")
RECURSIVE join(_)
join(v) ==
    IF v = <<>> THEN <<>>
    ELSE IF Len(v) = 1 THEN v[1]
    ELSE v[1] \o <<"\n">> \o join(Tail(v))

\* usize formatted by println!("{}")
RECURSIVE ToDecimal(_)
ToDecimal(n) ==
    IF n < 10 THEN <<DigitChars[n + 1]>>
    ELSE ToDecimal(n \div 10) \o <<DigitChars[(n % 10) + 1]>>

println(str) == str \o <<"\n">>

\* index of the first "\n" of data at or after pos, Len(data) + 1 if none
RECURSIVE FindNewline(_, _)
FindNewline(data, pos) ==
    IF pos > Len(data) \/ data[pos] = "\n" THEN pos
    ELSE FindNewline(data, pos + 1)

\* BufRead::lines: a line ends at "\n" or at the end of the data; the "\n"
\* and a "\r" right before it are dropped; nothing follows a final "\n".
\* a line without its terminator: raw, less a final "\r" when a "\n" ended it
BufReadLine(raw, terminated) ==
    IF terminated /\ raw # <<>> /\ raw[Len(raw)] = "\r"
    THEN SubSeq(raw, 1, Len(raw) - 1)
    ELSE raw

RECURSIVE BufReadLines(_)
RECURSIVE BufReadLinesFrom(_, _)
\* the lines of data, the first of which ends before index nl
BufReadLinesFrom(data, nl) ==
    <<BufReadLine(SubSeq(data, 1, nl - 1), nl <= Len(data))>>
        \o BufReadLines(SubSeq(data, nl + 1, Len(data)))

BufReadLines(data) ==
    IF data = <<>> THEN <<>> ELSE BufReadLinesFrom(data, FindNewline(data, 1))

\* a file of the disk: absent, or its bytes
NoFile == [exists |-> FALSE, data |-> <<>>]

File(data) == [exists |-> TRUE, data |-> data]

(***************************************************************************)
(* The input lines of the model.                                           *)
(***************************************************************************)
\* the numbers written in addresses: 0 and the lines of the initial file
AddressNumbers == {0, 1, 2, 3}

\* address tokens as written
TokenStrings == {<<"$">>} \cup {ToDecimal(n) : n \in AddressNumbers}

\* address expressions as written: none, one token, two tokens, a token and
\* a trailing comma, a number with a leading zero
AddressStrings ==
    {<<>>} \cup TokenStrings
        \cup {a \o <<",">> \o b : a \in TokenStrings \ {<<"0">>},
                                  b \in TokenStrings \ {<<"0">>}}
        \cup {<<"2", ",">>, <<"0", "1">>}

\* the addresses given to e and w
IoAddressStrings ==
    {<<>>, <<"2">>, <<"1", ",", "2">>, <<"2", ",", "1">>, <<"3", ",", "1">>}

Paths == {<<"f">>, <<"g">>}

\* what follows e or w: nothing, a lone separator, a path, a path without
\* its separator, a path after two separators
PathArguments ==
    {<<>>, <<" ">>} \cup {<<" ">> \o p : p \in Paths}
        \cup {<<"f">>, <<" ", " ", "g">>}

CommandInputs ==
    {a \o v : a \in AddressStrings,
              v \in {<<>>, <<"p">>, <<"a">>, <<"i">>, <<"c">>, <<"d">>}}
        \cup {a \o v \o t : a \in IoAddressStrings, v \in {<<"e">>, <<"w">>},
                             t \in PathArguments}
        \cup {<<"p", "p">>, <<"d", "x">>, <<"1", ",", "2", "p", "q">>,
               <<"x">>, <<".">>, <<"1", ",", ",", "p">>}

\* the lines typed in Insert mode: the terminator and a line that would be a
\* command in Command mode
TextInputs == {<<".">>, <<"p">>}

\* the input lines of the editor on a file system that can be written: w and
\* e with and without a path, a w of a part of the buffer, and the a that
\* lets the buffer grow in between
WritingInputs ==
    {<<"w">>, <<"w", " ", "g">>, <<"2", "w", " ", "g">>,
     <<"e">>, <<"e", " ", "f">>, <<"e", " ", "g">>,
     <<"a">>}

\* the lines typed in Insert mode there: the terminator, an empty line and a
\* line of text
WritingTextInputs == {<<".">>, <<>>, <<"x">>}

\* the file given on the command line, before the editor starts
InitialData == <<"a", "\n", "b", "\n", "c">>

\* a shorter file, without a final newline either
ShortData == <<"a", "\n", "b">>

\* Command::parse of every input line of the model, computed once
Parsed == [input \in CommandInputs |-> Command_parse(input)]

(***************************************************************************)
(* Editor                                                                  *)
(***************************************************************************)
Editor(current_address, lines, default_filename, mode) ==
    [current_address |-> current_address, lines |-> lines,
     default_filename |-> default_filename, mode |-> mode]

\* Editor::blank
blank == Editor(1, <<>>, None, "Command")

\* Result<T>: what a call of the editor hands back. err = "" and ~panic is
\* Ok, err # "" without panic is Err(err), and panic is a Rust panic with
\* message err: it aborts the process, and self is then the editor as it
\* was when the line was read.
Ok(self, disk, out) ==
    [self |-> self, disk |-> disk, out |-> out, err |-> "", panic |-> FALSE]

Err(self, disk, msg) ==
    [self |-> self, disk |-> disk, out |-> <<>>, err |-> msg, panic |-> FALSE]

Panic(self, disk, msg) ==
    [self |-> self, disk |-> disk, out |-> <<>>, err |-> msg, panic |-> TRUE]

\* a load that leaves the cursor past the last line
loaded_past_end(lines, path) == Editor(Len(lines) + 1, lines, Some(path), "Command")

\* lines 103-108: the editor made of the lines read
loaded(lines, path) == Editor(Len(lines), lines, Some(path), "Command")

\* Editor::from_file(path): the open fails when there is no such file.
\* `self` is the editor that is kept when the load fails.
from_file(self, disk, path) ==
    IF ~(path \in DOMAIN disk /\ disk[path].exists)
    THEN Err(self, disk, "Failed to open file")
    ELSE Ok(loaded(BufReadLines(disk[path].data), path), disk,
            println(ToDecimal(Len(disk[path].data))))

\* Editor::resolve_address_token
resolve_address_token(self, address_token) ==
    IF address_token.tag = "Dollar" THEN Len(self.lines) ELSE address_token.n

\* the (start, end) pair of resolve_address, 1-based, before validation
resolve_pair(self, command) ==
    IF command.address.tag = "None"
    THEN CASE command.kind.tag = "PrintAndSet" ->
                  <<self.current_address + 1, self.current_address + 1>>
           [] command.kind.tag = "Write" -> <<1, Len(self.lines)>>
           [] OTHER -> <<self.current_address, self.current_address>>
    ELSE <<resolve_address_token(self, command.address.start),
           resolve_address_token(self, command.address.end)>>

\* validate with the upper bound off by one (address <= len + 1)
validate_past_end(self, address) == address # 0 /\ address <= Len(self.lines) + 1

\* the `validate` closure
validate(self, address) == address # 0 /\ address <= Len(self.lines)

\* lines 234-238: the 0-based range of a valid pair
validated(self, pair) ==
    IF validate(self, pair[1]) /\ validate(self, pair[2])
    THEN [err |-> "", dummy |-> FALSE, start |-> pair[1] - 1, end |-> pair[2] - 1]
    ELSE [err |-> "Out of bounds", dummy |-> FALSE, start |-> 0, end |-> 0]

\* resolve_address that leaves an unaddressed w unvalidated, as an
\* unaddressed e is
resolve_address_write_unchecked(self, command) ==
    IF command.address.tag = "None" /\ command.kind.tag \in {"Edit", "Write"}
    THEN [err |-> "", dummy |-> TRUE, start |-> 0, end |-> 0]
    ELSE validated(self, resolve_pair(self, command))

\* Editor::resolve_address. Result: [err, dummy, start, end], start..=end the
\* 0-based range; dummy is the usize::MAX..=usize::MAX of an unaddressed e.
resolve_address(self, command) ==
    IF command.address.tag = "None" /\ command.kind.tag = "Edit"
    THEN [err |-> "", dummy |-> TRUE, start |-> 0, end |-> 0]
    ELSE validated(self, resolve_pair(self, command))

\* Option::or of the path argument and the remembered file name
path_or_default(self, command) ==
    IF command.kind.path.some THEN command.kind.path ELSE self.default_filename

\* PrintAndSet that leaves the cursor where it was
execute_PrintAndSet_keep_cursor(self, disk, start, end) ==
    IF start >= Len(self.lines) THEN Panic(self, disk, "index out of bounds")
    ELSE Ok(self, disk, println(self.lines[start + 1]))

\* the arms of the match of Editor::execute, range = start..=end (0-based)
execute_PrintAndSet(self, disk, start, end) ==
    IF start >= Len(self.lines) THEN Panic(self, disk, "index out of bounds")
    ELSE Ok([self EXCEPT !.current_address = end + 1], disk,
            println(self.lines[start + 1]))

\* Print that writes the first line of the range alone
execute_Print_first_line(self, disk, start, end) ==
    IF slice_panics(start, end, Len(self.lines)) THEN Panic(self, disk, "slice index")
    ELSE Ok([self EXCEPT !.current_address = end + 1], disk,
            println(join(slice(self.lines, start, start))))

execute_Print(self, disk, start, end) ==
    IF slice_panics(start, end, Len(self.lines)) THEN Panic(self, disk, "slice index")
    ELSE Ok([self EXCEPT !.current_address = end + 1], disk,
            println(join(slice(self.lines, start, end))))

\* Edit that reads the file after the lines of the buffer
execute_Edit_keep_lines(self, disk, path) ==
    IF ~path.some THEN Err(self, disk, "Missing path to write")
    ELSE IF from_file(self, disk, path.val).err # ""
    THEN from_file(self, disk, path.val)
    ELSE Ok(loaded(self.lines \o from_file(self, disk, path.val).self.lines,
                   path.val), disk, from_file(self, disk, path.val).out)

execute_Edit(self, disk, path) ==
    IF ~path.some THEN Err(self, disk, "Missing path to write")
    ELSE from_file(self, disk, path.val)

\* lines 165-167: a newline is pushed unless the contents end with one
with_final_newline(joined) ==
    IF joined # <<>> /\ joined[Len(joined)] = "\n" THEN joined
    ELSE joined \o <<"\n">>

\* a write that leaves the remembered file name as it was
write_contents_keep_name(self, disk, path, contents, io) ==
    IF ~(io /\ path \in DOMAIN disk)
    THEN Err(self, disk, "Failed to write file to disk")
    ELSE Ok(self, [disk EXCEPT ![path] = File(contents)],
            println(ToDecimal(Len(contents))))

\* lines 169-175: fs::write(path, &contents) and what follows it
write_contents(self, disk, path, contents, io) ==
    IF ~(io /\ path \in DOMAIN disk)
    THEN Err(self, disk, "Failed to write file to disk")
    ELSE Ok([self EXCEPT !.default_filename = Some(path)],
            [disk EXCEPT ![path] = File(contents)],
            println(ToDecimal(Len(contents))))

execute_Write(self, disk, path, start, end, io) ==
    IF ~path.some THEN Err(self, disk, "Missing path to write")
    ELSE IF slice_panics(start, end, Len(self.lines))
    THEN Panic(self, disk, "slice index")
    ELSE write_contents(self, disk, path.val,
                        with_final_newline(join(slice(self.lines, start, end))), io)

\* Append that sets the cursor one line further
execute_Append_past(self, disk, start, end) ==
    Ok([self EXCEPT !.current_address = start + 2, !.mode = "Insert"], disk, <<>>)

\* Append that leaves the cursor on the 0-based start of the range
execute_Append_at_start(self, disk, start, end) ==
    Ok([self EXCEPT !.current_address = start, !.mode = "Insert"], disk, <<>>)

execute_Append(self, disk, start, end) ==
    Ok([self EXCEPT !.current_address = start + 1, !.mode = "Insert"], disk, <<>>)

\* Insert that sets the cursor as Append does
execute_Insert_after(self, disk, start, end) ==
    Ok([self EXCEPT !.current_address = start + 1, !.mode = "Insert"], disk, <<>>)

execute_Insert(self, disk, start, end) ==
    Ok([self EXCEPT !.current_address = start, !.mode = "Insert"], disk, <<>>)

\* Change that drains the half-open range start..end
execute_Change_exclusive(self, disk, start, end) ==
    IF slice_panics(start, end, Len(self.lines)) THEN Panic(self, disk, "slice index")
    ELSE Ok([self EXCEPT !.current_address = start,
                         !.lines = drain(self.lines, start, end - 1),
                         !.mode = "Insert"], disk, <<>>)

execute_Change(self, disk, start, end) ==
    IF slice_panics(start, end, Len(self.lines)) THEN Panic(self, disk, "slice index")
    ELSE Ok([self EXCEPT !.current_address = start,
                         !.lines = drain(self.lines, start, end),
                         !.mode = "Insert"], disk, <<>>)

\* Delete that drains the half-open range start..end
execute_Delete_exclusive(self, disk, start, end) ==
    IF slice_panics(start, end, Len(self.lines)) THEN Panic(self, disk, "slice index")
    ELSE Ok([self EXCEPT !.current_address = end + 1,
                         !.lines = drain(self.lines, start, end - 1)], disk, <<>>)

execute_Delete(self, disk, start, end) ==
    IF slice_panics(start, end, Len(self.lines)) THEN Panic(self, disk, "slice index")
    ELSE Ok([self EXCEPT !.current_address = end + 1,
                         !.lines = drain(self.lines, start, end)], disk, <<>>)

\* the match of Editor::execute on command.kind, range = start..=end
execute_kind(self, disk, command, tag, start, end, io) ==
    CASE tag = "PrintAndSet" -> execute_PrintAndSet(self, disk, start, end)
      [] tag = "Print" -> execute_Print(self, disk, start, end)
      [] tag = "Edit" -> execute_Edit(self, disk, path_or_default(self, command))
      [] tag = "Write" ->
             execute_Write(self, disk, path_or_default(self, command), start, end, io)
      [] tag = "Append" -> execute_Append(self, disk, start, end)
      [] tag = "Insert" -> execute_Insert(self, disk, start, end)
      [] tag = "Change" -> execute_Change(self, disk, start, end)
      [] tag = "Delete" -> execute_Delete(self, disk, start, end)

\* after `let range = self.resolve_address(&command)?`
execute_range(self, disk, command, range, io) ==
    IF range.err # "" THEN Err(self, disk, range.err)
    ELSE execute_kind(self, disk, command, command.kind.tag, range.start,
                      range.end, io)

\* Editor::execute; io is whether the operating system lets a file be
\* written
execute(self, disk, command, io) ==
    execute_range(self, disk, command, resolve_address(self, command), io)

\* the Insert arm with Vec::push in place of Vec::insert
interpret_Insert_push(self, disk, input) ==
    IF input = <<".">> THEN Ok([self EXCEPT !.mode = "Command"], disk, <<>>)
    ELSE Ok([self EXCEPT !.lines = Append(self.lines, input),
                         !.current_address = self.current_address + 1], disk, <<>>)

\* Editor::interpret, Mode::Insert arm
interpret_Insert(self, disk, input) ==
    IF input = <<".">> THEN Ok([self EXCEPT !.mode = "Command"], disk, <<>>)
    ELSE IF self.current_address > Len(self.lines)
    THEN Panic(self, disk, "insertion index")
    ELSE Ok([self EXCEPT !.lines = insert(self.lines, self.current_address, input),
                         !.current_address = self.current_address + 1], disk, <<>>)

\* `let command = Command::parse(&input)?; self.execute(command)`
execute_parsed(self, disk, command, io) ==
    IF command.err # "" THEN Err(self, disk, command.err)
    ELSE IF command.panic THEN Panic(self, disk, "unreachable")
    ELSE execute(self, disk, command, io)

\* Editor::interpret, Mode::Command arm
interpret_Command(self, disk, input, io) ==
    execute_parsed(self, disk,
                   IF input \in DOMAIN Parsed THEN Parsed[input]
                   ELSE Command_parse(input), io)

\* Editor::interpret
interpret(self, disk, input, io) ==
    IF self.mode = "Command" THEN interpret_Command(self, disk, input, io)
    ELSE interpret_Insert(self, disk, input)

(***************************************************************************)
(* State.                                                                  *)
(***************************************************************************)
VARIABLES
    current_address,   \* Editor.current_address
    lines,             \* Editor.lines
    default_filename,  \* Editor.default_filename
    mode,              \* Editor.mode
    disk,              \* the files of Paths
    stdout,            \* what the last input line wrote to standard output
    result,            \* how the last input line ended: "start", "ok", the
                       \* message of an Err, or "panic: " and the kind of panic
    last,              \* the command of the last line that was executed
    old,               \* Editor.lines when `last` was read
    ins,               \* the lines stored in Insert mode since `last`
    reps,              \* how many times in a row the p command `last` has run
                       \* (counted up to two)
    walk               \* the run of bare lines under way: the n of the `np`
                       \* that began it and the bare lines executed since

vars == <<current_address, lines, default_filename, mode, disk, stdout, result,
          last, old, ins, reps, walk>>

self == Editor(current_address, lines, default_filename, mode)

\* an executed command: its verb, the 1-based (start, end) pair it resolved
\* to and the path argument it was given
NoCommand == [tag |-> "None", start |-> 0, end |-> 0, path |-> None]

Executed(command, pair) ==
    [tag |-> command.kind.tag, start |-> pair[1], end |-> pair[2],
     path |-> command.kind.path]

\* no run of bare lines is under way
NoWalk == [from |-> 0, bares |-> 0]

\* the count of `command`, the p command that has just run to its end, when
\* `before` was the command of the line before it
Repeated(before, command, count) ==
    IF before = command /\ count >= 1 THEN 2 ELSE 1

\* the run of bare lines after `command` has run to its end: a p of one line
\* begins a run, a bare line without address continues the run under way,
\* any other line ends it
Walked(w, parsed, command) ==
    IF command.tag = "Print" /\ command.start = command.end
    THEN [from |-> command.start, bares |-> 0]
    ELSE IF command.tag = "PrintAndSet" /\ parsed.address.tag = "None" /\ w.from > 0
    THEN [w EXCEPT !.bares = @ + 1]
    ELSE NoWalk

\* the command of the line, when it passed validation and was executed
\* (to its end, or to a panic)
ExecutedBy(command, range, r) ==
    IF ~(command.err = "" /\ ~command.panic /\ range.err = ""
           /\ (r.panic \/ r.err = ""))
    THEN NoCommand
    ELSE IF range.dummy THEN Executed(command, <<0, 0>>)
    ELSE Executed(command, resolve_pair(self, command))

running == result \notin {"panic: unreachable", "panic: slice index",
                          "panic: index out of bounds", "panic: insertion index"}

\* main, lines 14-17: the editor starts blank or from the file of the
\* command line (a file that cannot be opened ends the process at once)
Init ==
    /\ disk = [p \in Paths |-> IF p = <<"f">> THEN File(InitialData) ELSE NoFile]
    /\ \E started \in {Ok(blank, disk, <<>>), from_file(blank, disk, <<"f">>)} :
          /\ current_address = started.self.current_address
          /\ lines = started.self.lines
          /\ default_filename = started.self.default_filename
          /\ mode = started.self.mode
          /\ stdout = started.out
    /\ result = "start"
    /\ last = NoCommand
    /\ old = <<>>
    /\ ins = <<>>
    /\ reps = 0
    /\ walk = NoWalk

\* main, lines 37-42: the editor after the line, "?" on an Err
Commit(r) ==
    /\ current_address' = r.self.current_address
    /\ lines' = r.self.lines
    /\ default_filename' = r.self.default_filename
    /\ mode' = r.self.mode
    /\ disk' = r.disk
    /\ stdout' = IF r.panic THEN <<>> ELSE IF r.err # "" THEN println(<<"?">>) ELSE r.out
    /\ result' = IF r.panic THEN "panic: " \o r.err ELSE IF r.err # "" THEN r.err ELSE "ok"

\* one turn of the loop of main in Command mode, on a line of `inputs`; io
\* is whether the operating system lets a file be written
CommandLine(inputs, io) ==
    /\ running
    /\ mode = "Command"
    /\ \E input \in inputs :
         /\ Commit(interpret(self, disk, input, io))
         /\ last' = ExecutedBy(Parsed[input], resolve_address(self, Parsed[input]),
                               interpret(self, disk, input, io))
         /\ old' = IF last'.tag = "None" THEN <<>> ELSE lines
         /\ ins' = <<>>
         /\ reps' = IF last'.tag = "Print" /\ result' = "ok"
                    THEN Repeated(last, last', reps) ELSE 0
         /\ walk' = IF result' = "ok" THEN Walked(walk, Parsed[input], last')
                    ELSE NoWalk

\* one turn of the loop of main in Insert mode, on a line of `inputs`
TextLineOf(inputs) ==
    /\ running
    /\ mode = "Insert"
    /\ \E input \in inputs :
         /\ input = <<".">> \/ Len(lines) < MaxLines
         /\ Commit(interpret(self, disk, input, TRUE))
         /\ ins' = IF input = <<".">> THEN ins ELSE Append(ins, input)
         /\ UNCHANGED <<last, old, reps, walk>>

TextLine == TextLineOf(TextInputs)

\* the editor on a file system that refuses every write (fs::write fails):
\* the files stay as they were when the editor started
Next == CommandLine(CommandInputs, FALSE) \/ TextLine

Spec == Init /\ [][Next]_vars

\* main, lines 14-17, with the shorter file on the disk
InitIO ==
    /\ disk = [p \in Paths |-> IF p = <<"f">> THEN File(ShortData) ELSE NoFile]
    /\ \E started \in {Ok(blank, disk, <<>>), from_file(blank, disk, <<"f">>)} :
          /\ current_address = started.self.current_address
          /\ lines = started.self.lines
          /\ default_filename = started.self.default_filename
          /\ mode = started.self.mode
          /\ stdout = started.out
    /\ result = "start"
    /\ last = NoCommand
    /\ old = <<>>
    /\ ins = <<>>
    /\ reps = 0
    /\ walk = NoWalk

\* the editor on a file system where fs::write succeeds or fails
NextIO ==
    \/ \E io \in BOOLEAN : CommandLine(WritingInputs, io)
    \/ TextLineOf(WritingTextInputs)

SpecIO == InitIO /\ [][NextIO]_vars

(***************************************************************************)
(* Properties.                                                             *)
(***************************************************************************)
\* the fields of the editor are what they were before the step
EditorUnchanged ==
    /\ current_address' = current_address
    /\ lines' = lines
    /\ default_filename' = default_filename
    /\ mode' = mode

\* the line that was just read was a command that passed validation and
\* ran to its end, and no line has been read since
JustExecuted(tag) == last.tag = tag /\ result = "ok" /\ ins = <<>>

\* C1: in every state the editor can reach, 1 <= cursor <= len(buffer) + 1.
C1_CursorInRange ==
    running => (1 <= current_address /\ current_address <= Len(lines) + 1)

\* C2: a line that fails in Command mode leaves buffer, cursor, mode and
\* default filename as they were, and the editor in Command mode, ready for
\* the next line.
C2_FailureAtomic ==
    [][(running /\ mode = "Command" /\ result' # "ok")
          => (EditorUnchanged /\ running')]_vars

\* C3: a reversed explicit range with both endpoints in the buffer, given to
\* p, d, c or w, never crashes the editor, whatever the distance start - end.
C3_ReversedRangeNeverCrashes ==
    (last.tag \in {"Print", "Delete", "Change", "Write"} /\ last.start > last.end)
        => running

\* C4: a line with characters left over after a complete verb is reported as
\* an error and does not crash the editor.
C4_TrailingCharactersRecovered == result # "panic: unreachable"

\* a well-formed line of the model whose verb is not e
NonEditInputs ==
    {input \in CommandInputs :
        /\ Parsed[input].err = ""
        /\ ~Parsed[input].panic
        /\ Parsed[input].kind.tag # "Edit"}

\* every well-formed command other than e fails with "Out of bounds" and
\* changes nothing when it is given to the editor in its current state
AllCommandsOutOfBounds ==
    \A input \in NonEditInputs : \A io \in BOOLEAN :
        LET r == interpret(self, disk, input, io)
        IN ~r.panic /\ r.err = "Out of bounds" /\ r.self = self /\ r.disk = disk

\* C5 as written: on an empty buffer every p, bare, a, i, c, d and w command
\* fails with the out-of-bounds error and changes nothing, and only a
\* successful e makes an empty buffer non-empty.
C5_OnlyEditFillsEmptyBuffer ==
    [][(running /\ lines = <<>>)
          => /\ mode = "Command" => AllCommandsOutOfBounds
             /\ lines' # <<>> => (last'.tag = "Edit" /\ result' = "ok")]_vars

\* C5, amended: on an empty buffer in Command mode every p, bare, a, i, c, d
\* and w command fails with the out-of-bounds error and changes nothing: no
\* such command is executed, the editor is unchanged unless an e ran, and
\* only a successful e makes the buffer non-empty.
C5_EmptyBufferCommandsFail ==
    [][(running /\ mode = "Command" /\ lines = <<>>)
          => /\ AllCommandsOutOfBounds
             /\ last'.tag \in {"None", "Edit"}
             /\ last'.tag = "None" => EditorUnchanged
             /\ lines' # <<>> => (last'.tag = "Edit" /\ result' = "ok")]_vars

\* an emptied buffer on which a command has just failed with "Out of bounds"
C5_Witness ==
    /\ lines = <<>>
    /\ mode = "Command"
    /\ default_filename.some
    /\ result = "Out of bounds"

\* C6: in Insert mode a line other than "." is stored at the cursor (the
\* buffer grows by one, the lines before and after keep their order, the
\* cursor moves on by one, the mode stays Insert, nothing fails and nothing
\* is executed or printed); a line "." changes the mode alone.
C6_InsertModeStoresLines ==
    [][(running /\ mode = "Insert")
          => /\ result' = "ok"
             /\ stdout' = <<>>
             /\ last' = last
             /\ default_filename' = default_filename
             /\ disk' = disk
             /\ IF ins' # ins
                THEN /\ ins'[Len(ins')] # <<".">>
                     /\ Len(lines') = Len(lines) + 1
                     /\ lines'[current_address + 1] = ins'[Len(ins')]
                     /\ \A k \in 1..Len(lines) :
                           lines'[IF k <= current_address THEN k ELSE k + 1] = lines[k]
                     /\ current_address' = current_address + 1
                     /\ mode' = "Insert"
                ELSE /\ lines' = lines
                     /\ current_address' = current_address
                     /\ mode' = "Command"]_vars

\* a line that reads as a command was stored in the middle of the buffer and
\* the terminator brought the editor back to Command mode
C6_Witness ==
    /\ mode = "Command"
    /\ result = "ok"
    /\ ins = <<<<"p">>>>
    /\ last.tag \in {"Append", "Insert", "Change"}
    /\ Len(lines) = 3
    /\ lines[2] = <<"p">>

\* C7: after `na`, x1, ..., xk (and the "." that ends them) the buffer is
\* old[1..n] ++ [x1..xk] ++ old[n+1..L].
C7_AppendAfterAddressedLine ==
    last.tag = "Append"
        => lines = SubSeq(old, 1, last.start) \o ins
                      \o SubSeq(old, last.start + 1, Len(old))

\* an append in the middle of the buffer, ended by "."
C7_Witness ==
    /\ last.tag = "Append"
    /\ mode = "Command"
    /\ result = "ok"
    /\ ins # <<>>
    /\ last.start < Len(old)

\* C8: after `ni`, x1, ..., xk (and the "." that ends them) the buffer is
\* old[1..n-1] ++ [x1..xk] ++ old[n..L].
C8_InsertBeforeAddressedLine ==
    last.tag = "Insert"
        => lines = SubSeq(old, 1, last.start - 1) \o ins
                      \o SubSeq(old, last.start, Len(old))

\* an insert before a line that is not the first, ended by "."
C8_Witness ==
    /\ last.tag = "Insert"
    /\ mode = "Command"
    /\ result = "ok"
    /\ ins # <<>>
    /\ last.start > 1

\* the buffer of C9: old[1..b-1] ++ [x1..xk] ++ old[e+1..L]
ChangedBuffer ==
    SubSeq(old, 1, last.start - 1) \o ins \o SubSeq(old, last.end + 1, Len(old))

\* C9 as written: `b,ec` with 1 <= b <= e <= L removes lines b..e, sets the
\* cursor to b and enters Insert mode; x1, ..., xk and "." then leave the
\* buffer old[1..b-1] ++ [x1..xk] ++ old[e+1..L].
C9_ChangeCursorIsRangeStart ==
    (last.tag = "Change" /\ running /\ last.start <= last.end)
        => /\ lines = ChangedBuffer
           /\ (mode = "Insert" /\ ins = <<>>) => current_address = last.start

\* C9, amended: the cursor `b,ec` sets is b - 1, the 0-based index at which
\* Insert mode stores the next line (cursor 1 after `2c`), and it is
\* b - 1 + k after k lines; the rest as written. The step from Command mode
\* is the command itself, the later ones are the lines typed.
C9_ChangeReplacesLines ==
    [][(last'.tag = "Change" /\ running' /\ last'.start <= last'.end)
          => /\ lines' = ChangedBuffer'
             /\ current_address' = last'.start - 1 + Len(ins')
             /\ mode = "Command" => (mode' = "Insert" /\ ins' = <<>>)
             /\ (mode = "Insert" /\ ins' = ins)
                   => (mode' = "Command" /\ lines' = lines)]_vars

\* a change of a line in the middle, one line typed, ended by "."
C9_Witness ==
    /\ last.tag = "Change"
    /\ mode = "Command"
    /\ result = "ok"
    /\ ins # <<>>
    /\ 1 < last.start
    /\ last.end < Len(old)

\* the buffer of C10: old[1..b-1] ++ old[e+1..L]
DeletedBuffer ==
    SubSeq(old, 1, last.start - 1) \o SubSeq(old, last.end + 1, Len(old))

\* C10 as written: `b,ed` with 1 <= b <= e <= L leaves old[1..b-1] ++
\* old[e+1..L], prints nothing, keeps Command mode and sets the cursor to
\* e + 1.
C10_DeleteCursorIsEndPlusOne ==
    (JustExecuted("Delete") /\ last.start <= last.end)
        => /\ lines = DeletedBuffer
           /\ Len(lines) = Len(old) - (last.end - last.start + 1)
           /\ stdout = <<>>
           /\ mode = "Command"
           /\ current_address = last.end + 1

\* C10, amended: the cursor `b,ed` sets is e, the 1-based end of the range
\* (range.end + 1 of the 0-based range); the rest as written.
C10_DeleteRemovesLines ==
    (JustExecuted("Delete") /\ last.start <= last.end)
        => /\ lines = DeletedBuffer
           /\ Len(lines) = Len(old) - (last.end - last.start + 1)
           /\ stdout = <<>>
           /\ mode = "Command"
           /\ current_address = last.end

\* a delete of two lines that leaves a line before or after them
C10_Witness ==
    /\ JustExecuted("Delete")
    /\ last.start < last.end
    /\ lines # <<>>

\* the line just read was `1,$p` (a p of lines 1 to len(buffer)) on a
\* non-empty buffer
WholeBufferPrinted ==
    /\ JustExecuted("Print")
    /\ old # <<>>
    /\ last.start = 1
    /\ last.end = Len(old)

\* C11 as written: on a non-empty buffer `1,$p` prints the whole buffer, in
\* order, leaves the buffer unchanged and sets the cursor to len(buffer) + 1,
\* the first time and the second.
C11_PrintCursorPastEnd ==
    WholeBufferPrinted
        => /\ stdout = println(join(old))
           /\ lines = old
           /\ current_address = Len(lines) + 1

\* C11, amended: the cursor `1,$p` sets is len(buffer), the last line
\* printed; the rest as written: each `1,$p` prints the whole buffer and
\* leaves it unchanged, and the second of two in succession prints what the
\* first printed and leaves the editor as the first left it.
C11_PrintIdempotent ==
    [][WholeBufferPrinted'
          => /\ stdout' = println(join(lines))
             /\ lines' = lines
             /\ current_address' = Len(lines)
             /\ reps' = 2 => (stdout' = stdout /\ EditorUnchanged)]_vars

\* `1,$p` has run twice in succession on a buffer of several lines
C11_Witness ==
    /\ WholeBufferPrinted
    /\ reps = 2
    /\ Len(lines) > 1

\* the explicit addresses of the model that are valid in the current state:
\* a single line or a range b,e with 1 <= b <= e <= len(buffer)
ValidExplicitAddresses ==
    {a \in AddressStrings :
        /\ Parsed[a].err = ""
        /\ Parsed[a].address.tag # "None"
        /\ 1 <= resolve_pair(self, Parsed[a])[1]
        /\ resolve_pair(self, Parsed[a])[1] <= resolve_pair(self, Parsed[a])[2]
        /\ resolve_pair(self, Parsed[a])[2] <= Len(lines)}

\* C12: from the same state, the line `b,e` and the line `b,ep` (a valid
\* explicit address, single or range) print the same output, lines b..e, and
\* leave the same cursor.
C12_BareEqualsPrint ==
    (running /\ mode = "Command")
        => \A a \in ValidExplicitAddresses :
              /\ interpret(self, disk, a, FALSE)
                    = interpret(self, disk, a \o <<"p">>, FALSE)
              /\ interpret(self, disk, a, FALSE).out
                    = println(join(SubSeq(lines, resolve_pair(self, Parsed[a])[1],
                                          resolve_pair(self, Parsed[a])[2])))

\* the editor has just loaded a file of one line or more: at startup or by
\* an e
JustLoaded ==
    /\ running
    /\ mode = "Command"
    /\ lines # <<>>
    /\ \/ result = "start" /\ default_filename.some
       \/ JustExecuted("Edit")

\* the line just read, or the one before the lines typed since, was an a
\* that resolved to the last line of the buffer
AppendedAtEnd == last.tag = "Append" /\ last.start = Len(old) /\ running

\* C13 as written: right after loading a file of L >= 1 lines the cursor is
\* L + 1, an unaddressed `a` then succeeds and enters Insert mode with the
\* cursor still L + 1, and one line x and "." leave the buffer with x as line
\* L + 1, in Command mode, with cursor L + 1.
C13_LoadCursorPastEnd ==
    /\ JustLoaded
          => /\ current_address = Len(lines) + 1
             /\ interpret(self, disk, <<"a">>, FALSE)
                   = Ok([self EXCEPT !.mode = "Insert"], disk, <<>>)
    /\ (AppendedAtEnd /\ Len(ins) = 1 /\ mode = "Command")
          => (lines = old \o ins /\ current_address = Len(old) + 1)

\* C13, amended: right after loading a file of L >= 1 lines the cursor is L
\* (the last line), an unaddressed `a` then succeeds and enters Insert mode
\* with the cursor still L, and the lines typed are stored after line L: one
\* line x and "." leave the buffer with x as line L + 1, in Command mode,
\* with cursor L + 1.
C13_AppendAfterLoad ==
    [][/\ JustLoaded
             => /\ current_address = Len(lines)
                /\ interpret(self, disk, <<"a">>, FALSE)
                      = Ok([self EXCEPT !.mode = "Insert"], disk, <<>>)
                /\ last'.tag = "Append" => (last'.start = Len(lines) /\ ins' = <<>>)
       /\ AppendedAtEnd'
             => /\ lines' = old' \o ins'
                /\ current_address' = Len(old') + Len(ins')
                /\ mode = "Command" => mode' = "Insert"
                /\ (mode = "Insert" /\ ins' = ins) => mode' = "Command"]_vars

\* the file of two lines was loaded, and an unaddressed `a`, the line x and
\* "." have left a, b, x
C13_Witness ==
    /\ AppendedAtEnd
    /\ mode = "Command"
    /\ old = BufReadLines(ShortData)
    /\ ins = <<<<"x">>>>
    /\ lines = <<<<"a">>, <<"b">>, <<"x">>>>
    /\ current_address = Len(lines)

\* every line of v followed by one newline
RECURSIVE EachLineTerminated(_)
EachLineTerminated(v) ==
    IF v = <<>> THEN <<>> ELSE v[1] \o <<"\n">> \o EachLineTerminated(Tail(v))

\* the line just read was a w of the whole of a non-empty buffer (lines 1 to
\* len(buffer), what a w without address resolves to) that succeeded
WroteWholeBuffer ==
    /\ JustExecuted("Write")
    /\ old # <<>>
    /\ last.start = 1
    /\ last.end = Len(old)

\* C14: a w of the whole of a non-empty buffer writes each line followed by
\* exactly one newline, reports the number of bytes written, and an e of the
\* same path then restores exactly the lines of the buffer.
C14_WriteReloadRoundTrip ==
    WroteWholeBuffer
        => /\ disk[default_filename.val].data = EachLineTerminated(lines)
           /\ stdout = println(ToDecimal(Len(disk[default_filename.val].data)))
           /\ BufReadLines(disk[default_filename.val].data) = lines
           /\ interpret(self, disk, <<"e">>, TRUE).self.lines = lines

\* the step is a line with the verb e or w that ran to its end
LoadedOrWrote == last'.tag \in {"Edit", "Write"} /\ result' = "ok"

\* the path a successful e or w used: its argument, or the remembered file
\* name when it has none
UsedPath == IF last'.path.some THEN last'.path ELSE default_filename

\* the lines a w has just written, joined: the file begins with them
WrittenLines == join(SubSeq(old, last.start, last.end))

\* C15: the remembered file name is the path of the most recent successful
\* load (startup or e) or successful w; a failed e or w (and any other line)
\* leaves it as it was; e and w without a path argument operate on the
\* remembered path; a w changes neither buffer, cursor nor mode.
C15_DefaultFilenameFollowsUse ==
    /\ [](result = "start"
            => default_filename = IF lines = <<>> THEN None ELSE Some(<<"f">>))
    /\ [][/\ ~LoadedOrWrote => (default_filename' = default_filename /\ disk' = disk)
          /\ LoadedOrWrote
                => /\ UsedPath.some
                   /\ default_filename' = UsedPath
                   /\ \A p \in Paths \ {UsedPath.val} : disk'[p] = disk[p]
          /\ (LoadedOrWrote /\ last'.tag = "Edit")
                => /\ disk' = disk
                   /\ disk[UsedPath.val].exists
                   /\ lines' = BufReadLines(disk[UsedPath.val].data)
          /\ (LoadedOrWrote /\ last'.tag = "Write")
                => /\ disk'[UsedPath.val].exists
                   /\ SubSeq(disk'[UsedPath.val].data, 1, Len(WrittenLines'))
                        = WrittenLines'
                   /\ lines' = lines
                   /\ current_address' = current_address
                   /\ mode' = mode]_vars

\* a w without path has written the file that an earlier `w g` made the
\* remembered one
C15_Witness ==
    /\ JustExecuted("Write")
    /\ ~last.path.some
    /\ default_filename = Some(<<"g">>)
    /\ disk[<<"g">>].exists
    /\ disk[<<"f">>].data = ShortData

\* the bytes `data` of a file are the lines v: each line followed by a
\* newline, the last one with or without its newline
FileHolds(data, v) ==
    IF data = <<>> THEN v = <<>>
    ELSE IF data[Len(data)] = "\n" THEN data = EachLineTerminated(v)
    ELSE data = join(v)

\* C16: a successful e replaces the whole editor, whatever it was: the
\* buffer is exactly the lines of the file loaded, the cursor is the length
\* of the new buffer, the mode is Command and the remembered file name is the
\* path loaded; the files are left as they were.
C16_EditReplacesState ==
    [][(last'.tag = "Edit" /\ result' = "ok")
          => /\ UsedPath.some
             /\ disk[UsedPath.val].exists
             /\ FileHolds(disk[UsedPath.val].data, lines')
             /\ current_address' = Len(lines')
             /\ mode' = "Command"
             /\ default_filename' = UsedPath
             /\ disk' = disk
             /\ stdout' = println(ToDecimal(Len(disk[UsedPath.val].data)))]_vars

\* an e has discarded a line that was typed and never written: the buffer
\* it replaced was longer, and the cursor was elsewhere
C16_Witness ==
    /\ JustExecuted("Edit")
    /\ Len(old) > Len(lines)
    /\ old[Len(old)] = <<"x">>
    /\ \A k \in 1..Len(lines) : lines[k] # <<"x">>
    /\ current_address = Len(lines)

\* the line made of the verb alone is parsed as the verb without path
ParsedWithoutPath(verb, tag) ==
    Parsed[<<verb>>] = [err |-> "", panic |-> FALSE, address |-> NoAddress,
                        kind |-> Kind(tag, None)]

\* the line made of the verb and a separator is rejected by the parser, and
\* the editor is left as it was
SeparatorAloneRejected(verb) ==
    /\ Parsed[<<verb, " ">>].err # ""
    /\ interpret(self, disk, <<verb, " ">>, FALSE)
          = Err(self, disk, Parsed[<<verb, " ">>].err)

\* C17 as written: the line `e` (verb, then end of input) is rejected as a
\* parse error, with or without a remembered file name, so no e without path
\* is ever executed; the line `w` is accepted with an absent path; for both
\* verbs a separator with nothing after it is an error.
C17_EditRequiresPath ==
    /\ last.tag = "Edit" => last.path.some
    /\ (running /\ mode = "Command")
          => /\ Parsed[<<"e">>].err # ""
             /\ interpret(self, disk, <<"e">>, FALSE)
                   = Err(self, disk, Parsed[<<"e">>].err)
             /\ ParsedWithoutPath("w", "Write")
             /\ SeparatorAloneRejected("e")
             /\ SeparatorAloneRejected("w")

\* C17, amended: the line `e` is accepted with an absent path, as the line
\* `w` is: it loads the remembered file again, and fails ("Missing path to
\* write", at execution) only when no file name is remembered; for both
\* verbs a separator with nothing after it is a parse error.
C17_EditPathOptional ==
    /\ (last.tag = "Edit" /\ ~last.path.some /\ result = "ok")
          => (default_filename.some
                /\ FileHolds(disk[default_filename.val].data, lines))
    /\ (running /\ mode = "Command")
          => /\ ParsedWithoutPath("e", "Edit")
             /\ ParsedWithoutPath("w", "Write")
             /\ interpret(self, disk, <<"e">>, FALSE).err
                   = IF default_filename.some /\ disk[default_filename.val].exists
                     THEN ""
                     ELSE IF default_filename.some THEN "Failed to open file"
                     ELSE "Missing path to write"
             /\ interpret(self, disk, <<"e">>, FALSE).self.default_filename
                   = default_filename
             /\ SeparatorAloneRejected("e")
             /\ SeparatorAloneRejected("w")

\* an e without path and without address has loaded the remembered file
\* again, over a buffer that had changed
C17_Witness ==
    /\ JustExecuted("Edit")
    /\ ~last.path.some
    /\ last.start = 0
    /\ old # lines
    /\ lines = BufReadLines(InitialData)

\* C18: whenever the editor is in Insert mode the cursor, the index at which
\* the next line is stored, is at most len(buffer), whichever of a, i, c
\* entered Insert mode, with whichever valid address, and however many lines
\* were typed since; storing a line never goes out of bounds.
C18_InsertIndexInBounds ==
    /\ (running /\ mode = "Insert") => current_address <= Len(lines)
    /\ result # "panic: insertion index"
    /\ (running /\ mode = "Insert")
          => \A input \in TextInputs : ~interpret(self, disk, input, FALSE).panic

\* Insert mode was entered by `$a` (or an a on the last line) and a line was
\* stored at index len(buffer), the largest there is
C18_Witness ==
    /\ mode = "Insert"
    /\ last.tag = "Append"
    /\ last.start = Len(old)
    /\ ins # <<>>
    /\ current_address = Len(lines)
    /\ lines[Len(lines)] = ins[Len(ins)]

\* the line that the run of bare lines has reached: n after `np`, n + k
\* after the k-th bare line
WalkedTo == walk.from + walk.bares

\* C19: after `np` with 1 <= n <= L, the k-th bare line in succession prints
\* line n + k, alone, and leaves the cursor on it, as long as n + k <= L; a
\* bare line is accepted whenever a line is left, and once line L was the
\* last one printed the bare line fails with "Out of bounds" and leaves the
\* editor (the cursor with it) as it was.
C19_BareLinesStep ==
    (walk.from > 0)
        => /\ running
           /\ mode = "Command"
           /\ last.tag = IF walk.bares = 0 THEN "Print" ELSE "PrintAndSet"
           /\ lines = old
           /\ 1 <= walk.from
           /\ WalkedTo <= Len(lines)
           /\ stdout = println(lines[WalkedTo])
           /\ current_address = WalkedTo
           /\ interpret(self, disk, <<>>, FALSE)
                 = IF WalkedTo < Len(lines)
                   THEN Ok([self EXCEPT !.current_address = WalkedTo + 1], disk,
                           println(lines[WalkedTo + 1]))
                   ELSE Err(self, disk, "Out of bounds")

\* `1p` and two bare lines have printed the first, second and third line
C19_Witness ==
    /\ walk.from = 1
    /\ walk.bares = 2
    /\ Len(lines) = 3
    /\ stdout = println(lines[3])
    /\ current_address = 3

\* the well-formed lines of the model whose verb is w
WriteInputs ==
    {input \in CommandInputs :
        /\ Parsed[input].err = ""
        /\ ~Parsed[input].panic
        /\ Parsed[input].kind.tag = "Write"}

\* C20: in every reachable state, no remembered file name means an empty
\* buffer; a w never ends in "Missing path to write" (without a remembered
\* name it fails the validation of its address first, with or without a path
\* argument), so that error is left to an e without argument, given when no
\* file name is remembered.
C20_NoNameMeansEmptyBuffer ==
    /\ ~default_filename.some => lines = <<>>
    /\ result = "Missing path to write" => (~default_filename.some /\ lines = <<>>)
    /\ (running /\ mode = "Command")
          => \A input \in WriteInputs : \A io \in BOOLEAN :
                /\ interpret(self, disk, input, io).err # "Missing path to write"
                /\ ~default_filename.some
                      => interpret(self, disk, input, io)
                           = Err(self, disk, "Out of bounds")
    /\ (running /\ mode = "Command" /\ ~default_filename.some)
          => interpret(self, disk, <<"e">>, FALSE)
               = Err(self, disk, "Missing path to write")

\* the editor was started without a file and an e without argument has
\* failed for want of a path
C20_Witness ==
    /\ result = "Missing path to write"
    /\ ~default_filename.some
    /\ lines = <<>>
    /\ mode = "Command"

====
